---- MODULE Spec2Model ----
(***************************************************************************)
(* A model of the segregated-free-list allocator of malloclab.c.           *)
(*                                                                         *)
(* The heap is a byte-addressed memory (little-endian 32-bit words, as on  *)
(* the x86-64 target of the lab).  Only bytes that have been written are   *)
(* in the domain of the memory function, so a read of a byte the program   *)
(* never wrote is an evaluation error of the model, not a silent value.    *)
(* Every C function is an operator from a heap record to a result record;  *)
(* the actions apply the public functions to the current heap.  A         *)
(* statement that reads the heap it writes is an operator of its own,     *)
(* named after its function, and the function applies its statements in   *)
(* the order of the source, innermost first.                              *)
(*                                                                         *)
(* A size_t value v below 2^63 is the integer v; a value v from 2^63 on    *)
(* is the negative integer v - 2^64.  Sums and products of sizes are then  *)
(* exact modulo 2^64, and the comparisons of sizes are the unsigned ones   *)
(* (ULT, ULE, UGE).                                                        *)
(*                                                                         *)
(* The second program of the repository, the job-control shell of          *)
(* tshlab.c, is modelled next to it: the job list and nextjid, the         *)
(* position of the shell's main flow (pc) with the locals that outlive a   *)
(* step (frame), the child processes as the kernel sees them (procs), the  *)
(* pending SIGCHLD, and the signal the last handler step sent (sent).      *)
(* A signal handler runs from its first to its last statement in one step, *)
(* at every point of the main flow where its signal is not blocked.        *)
(***************************************************************************)
EXTENDS Integers, FiniteSets, Sequences, TLC

(* ------------------------------------------------------------------ *)
(* Program constants                                                   *)
(* ------------------------------------------------------------------ *)
ALIGNMENT == 8
WSIZE == 4
DSIZE == 8
CHUNKSIZE == 4096
NULL == 0
\* the largest size_t, 2^64 - 1
SIZE_MAX == 0 - 1

(* ------------------------------------------------------------------ *)
(* Bounds of the model                                                 *)
(* ------------------------------------------------------------------ *)
\* at most this many allocations are live at once
MaxLive == 3
\* the caller issues at most this many calls
MaxCalls == 4
\* the growth primitive refuses to take the arena beyond this many bytes
MaxHeap == 9120

\* first byte of the arena handed out by the growth primitive (8-aligned)
mem_heap_lo == 16

\* request sizes used by the callers of the model
ReqSizes == {0, 1, 13, 4092, 5000}
\* requests so large that size + WSIZE + (DSIZE-1) wraps around, to 0 and to 10
WideSizes == {SIZE_MAX - 10, SIZE_MAX}
\* calloc's (nmemb, size) pairs
CallocArgs == {<<0, 4>>, <<10, 4>>, <<1, 13>>}
\* how much room the growth primitive has left when a call starts:
\* none, just the 16 bytes of mm_init's first request, or all of MaxHeap
Rooms == {0, 4 * WSIZE, MaxHeap}
\* the faults a call can end in, named after the function that faults
NoFault == "none"
\* the byte a caller stores into its payload
Tag == 165
\* a trace of requests and releases has at most this many calls
MaxTrace == 6
\* the request sizes of a trace: two small blocks and one that takes a
\* whole chunk, so that the next request grows the arena
TraceSizes == {16, 32, 4080}
\* the values a byte of the arena that was never written can be read as
JunkBytes == {0, 127}
\* the heap walk of mm_checkheap follows at most this many links
MaxWalk == 40
\* the growth primitive of a scripted run does not take the arena beyond
\* this many bytes
ScriptHeap == 80000
\* the adjusted sizes a search is asked for: the wrapped ones, the bounds of
\* classes, sizes just above a bound, and one no block of the model fits
FitSizes == {0, 8, 16, 24, 32, 40, 4080, 4096, 4104, 5008, 9200}
\* the entries of the job list of the model (the shell has 16)
MAXJOBS == 2
\* the shell forks at most this many children
MaxProcs == 3
\* the entries of the job list in the runs of addjob and deletejob alone
JobSlots == 4
\* the pids of those runs, and the job id up to which jobs are added
JobPids == 5
MaxJid == 6

VARIABLES heap, live, last, fault, calls,
          job_list, nextjid, pc, frame, procs, sigchld, sent
\* the state of the allocator and of its caller, the state of the shell
mmvars == <<heap, live, last, fault, calls>>
tshvars == <<job_list, nextjid, pc, frame, procs, sigchld, sent>>
vars == <<heap, live, last, fault, calls,
          job_list, nextjid, pc, frame, procs, sigchld, sent>>

(* ------------------------------------------------------------------ *)
(* Bit operations on naturals                                          *)
(* ------------------------------------------------------------------ *)
RECURSIVE BitAnd(_, _)
BitAnd(a, b) ==
    IF a = 0 \/ b = 0 THEN 0
    ELSE 2 * BitAnd(a \div 2, b \div 2) + (IF a % 2 = 1 /\ b % 2 = 1 THEN 1 ELSE 0)

RECURSIVE BitOr(_, _)
BitOr(a, b) ==
    IF a = 0 THEN b
    ELSE IF b = 0 THEN a
    ELSE 2 * BitOr(a \div 2, b \div 2) + (IF a % 2 = 1 \/ b % 2 = 1 THEN 1 ELSE 0)

\* x & ~m for a small mask m
AndNot(x, m) == x - BitAnd(x, m)

\* unsigned comparisons of size_t values
ULT(a, b) == IF (a >= 0) = (b >= 0) THEN a < b ELSE b < 0
ULE(a, b) == a = b \/ ULT(a, b)

MAX(x, y) == IF ULT(y, x) THEN x ELSE y

(* ------------------------------------------------------------------ *)
(* Memory words                                                        *)
(* ------------------------------------------------------------------ *)
PACK(size, alloc) == BitOr(size, alloc)

\* *(unsigned int *)p
GET(h, p) ==
    h.mem[p] + 256 * h.mem[p + 1] + 65536 * h.mem[p + 2] + 16777216 * h.mem[p + 3]

\* *(unsigned int *)p = val
PUT(h, p, val) ==
    [h EXCEPT !.mem =
        (p :> (val % 256)) @@ ((p + 1) :> ((val \div 256) % 256))
        @@ ((p + 2) :> ((val \div 65536) % 256))
        @@ ((p + 3) :> ((val \div 16777216) % 256)) @@ h.mem]

GET_SIZE(h, p) == AndNot(GET(h, p), 7)
GET_ALLOC(h, p) == BitAnd(GET(h, p), 1)
GET_PREV_ALLOC(h, p) == BitAnd(GET(h, p), 2)

HDRP(bp) == bp - WSIZE
FTRP(h, bp) == bp + GET_SIZE(h, HDRP(bp)) - DSIZE

NEXT_BLKP(h, bp) == bp + GET_SIZE(h, bp - WSIZE)
PREV_BLKP(h, bp) == bp - GET_SIZE(h, bp - DSIZE)

ADDR2OF(h, address) == address - h.heap_listp
OF2ADDR(h, offset) == offset + h.heap_listp

GET_PREV(h, bp) == OF2ADDR(h, GET(h, bp))
GET_NEXT(h, bp) == OF2ADDR(h, GET(h, bp + WSIZE))
SET_PREV(h, bp, val) == PUT(h, bp, ADDR2OF(h, val))
SET_NEXT(h, bp, val) == PUT(h, bp + WSIZE, ADDR2OF(h, val))

(* ------------------------------------------------------------------ *)
(* The growth primitive: extends the arena by exactly incr bytes and   *)
(* returns the old break, or -1 and no change when the arena would     *)
(* pass lim.                                                           *)
(* ------------------------------------------------------------------ *)
mem_sbrk(h, incr, lim) ==
    IF incr < 0 \/ h.brk + incr > lim
    THEN [h |-> h, ret |-> -1]
    ELSE [h |-> [h EXCEPT !.brk = h.brk + incr], ret |-> h.brk]

(* ------------------------------------------------------------------ *)
(* Size classes                                                        *)
(* ------------------------------------------------------------------ *)
size2ptr(h, size) ==
    IF size <= 16 THEN h.root1
    ELSE IF size <= 32 THEN h.root2
    ELSE IF size <= 64 THEN h.root3
    ELSE IF size <= 128 THEN h.root4
    ELSE IF size <= 256 THEN h.root5
    ELSE IF size <= 512 THEN h.root6
    ELSE IF size <= 1024 THEN h.root7
    ELSE IF size <= 2048 THEN h.root8
    ELSE IF size <= 4096 THEN h.root9
    ELSE h.root10

update_root(h, size) ==
    IF size <= 16 THEN [h EXCEPT !.root1 = h.root]
    ELSE IF size <= 32 THEN [h EXCEPT !.root2 = h.root]
    ELSE IF size <= 64 THEN [h EXCEPT !.root3 = h.root]
    ELSE IF size <= 128 THEN [h EXCEPT !.root4 = h.root]
    ELSE IF size <= 256 THEN [h EXCEPT !.root5 = h.root]
    ELSE IF size <= 512 THEN [h EXCEPT !.root6 = h.root]
    ELSE IF size <= 1024 THEN [h EXCEPT !.root7 = h.root]
    ELSE IF size <= 2048 THEN [h EXCEPT !.root8 = h.root]
    ELSE IF size <= 4096 THEN [h EXCEPT !.root9 = h.root]
    ELSE [h EXCEPT !.root10 = h.root]

(* ------------------------------------------------------------------ *)
(* Free lists                                                          *)
(* ------------------------------------------------------------------ *)
\* PUT(FTRP(bp), val)
PUT_FTRP(h, bp, val) == PUT(h, FTRP(h, bp), val)

\* root = size2ptr(size);
insert_list_select(h, size) == [h EXCEPT !.root = size2ptr(h, size)]
\* SET_PREV(bp, heap_listp);
insert_list_prev(h, bp) == SET_PREV(h, bp, h.heap_listp)
\* SET_NEXT(bp, root);
insert_list_next(h, bp) == SET_NEXT(h, bp, h.root)
\* fault injection: the old head of the list keeps its prev link
insert_list_back_none(h, bp) == h
\* if (root != heap_listp) SET_PREV(root, bp);
insert_list_back(h, bp) == IF h.root # h.heap_listp THEN SET_PREV(h, h.root, bp) ELSE h
\* root = bp; update_root(size);
\* fault injection: the class head is not stored back
insert_list_root_lost(h, bp, size) == [h EXCEPT !.root = bp]
insert_list_root(h, bp, size) == update_root([h EXCEPT !.root = bp], size)

insert_list(h, bp, size) ==
    insert_list_root(
        insert_list_back(
            insert_list_next(
                insert_list_prev(
                    insert_list_select(h, size), bp), bp), bp), bp, size)

\* if(prev != heap_listp) SET_NEXT(prev,next);
remove_list_next(h, prev, next) ==
    IF prev # h.heap_listp THEN SET_NEXT(h, prev, next) ELSE h
\* if(next != heap_listp) SET_PREV(next,prev);
remove_list_prev(h, prev, next) ==
    IF next # h.heap_listp THEN SET_PREV(h, next, prev) ELSE h
\* if(bp == root) root = next; update_root(size);
remove_list_root(h, bp, next, size) ==
    update_root(IF bp = h.root THEN [h EXCEPT !.root = next] ELSE h, size)

remove_list_links(h, bp, size, prev, next) ==
    remove_list_root(
        remove_list_prev(
            remove_list_next(
                [h EXCEPT !.root = size2ptr(h, size)], prev, next), prev, next),
        bp, next, size)

remove_list(h, bp, size) ==
    remove_list_links(h, bp, size, GET_PREV(h, bp), GET_NEXT(h, bp))

(* ------------------------------------------------------------------ *)
(* Unsigned comparison of a difference of sizes: a negative difference *)
(* is the wrapped (huge) size_t value.                                 *)
(* ------------------------------------------------------------------ *)
UGE(d, k) == d < 0 \/ d >= k

(* ------------------------------------------------------------------ *)
(* coalesce - boundary tag coalescing                                  *)
(* Each case yields the heap, the block pointer and the size that the  *)
(* common tail of coalesce goes on with.                               *)
(* ------------------------------------------------------------------ *)
\* remove_list(NEXT_BLKP(bp), GET_SIZE(HDRP(NEXT_BLKP(bp))));
coalesce_remove_next(h, bp) ==
    remove_list(h, NEXT_BLKP(h, bp), GET_SIZE(h, HDRP(NEXT_BLKP(h, bp))))
\* remove_list(PREV_BLKP(bp), GET_SIZE(HDRP(PREV_BLKP(bp))));
coalesce_remove_prev(h, bp) ==
    remove_list(h, PREV_BLKP(h, bp), GET_SIZE(h, HDRP(PREV_BLKP(h, bp))))
\* PUT(HDRP(PREV_BLKP(bp)), PACK(size, GET_PREV_ALLOC(HDRP(PREV_BLKP(bp)))));
coalesce_put_prev(h, bp, size) ==
    PUT(h, HDRP(PREV_BLKP(h, bp)),
        PACK(size, GET_PREV_ALLOC(h, HDRP(PREV_BLKP(h, bp)))))
\* fault injection: the footer of the absorbed next block is left as it was
coalesce_put_next_none(h, bp, size) == h
\* PUT(FTRP(NEXT_BLKP(bp)), PACK(size,0));
coalesce_put_next(h, bp, size) == PUT(h, FTRP(h, NEXT_BLKP(h, bp)), PACK(size, 0))
\* fault injection: the merged block keeps the address of the released block
coalesce_prev_kept(h, bp, size) == [h |-> h, bp |-> bp, size |-> size]
\* bp = PREV_BLKP(bp);
coalesce_prev(h, bp, size) == [h |-> h, bp |-> PREV_BLKP(h, bp), size |-> size]

\* Case 2: only the next block is free
coalesce_case2_merge(h, bp, size) ==
    [h |-> PUT_FTRP(PUT(coalesce_remove_next(h, bp), HDRP(bp), PACK(size, 2)),
                    bp, PACK(size, 0)),
     bp |-> bp, size |-> size]

coalesce_case2(h, bp, size) ==
    coalesce_case2_merge(h, bp, size + GET_SIZE(h, HDRP(NEXT_BLKP(h, bp))))

\* Case 3: only the previous block is free
coalesce_case3_merge(h, bp, size) ==
    coalesce_prev(
        coalesce_put_prev(
            PUT_FTRP(coalesce_remove_prev(h, bp), bp, PACK(size, 0)), bp, size),
        bp, size)

coalesce_case3(h, bp, size) ==
    coalesce_case3_merge(h, bp, size + GET_SIZE(h, HDRP(PREV_BLKP(h, bp))))

\* Case 4: both neighbours are free
coalesce_case4_merge(h, bp, size) ==
    coalesce_prev(
        coalesce_put_next(
            coalesce_put_prev(
                coalesce_remove_prev(coalesce_remove_next(h, bp), bp), bp, size),
            bp, size),
        bp, size)

coalesce_case4(h, bp, size) ==
    coalesce_case4_merge(h, bp, size + GET_SIZE(h, HDRP(PREV_BLKP(h, bp)))
                                    + GET_SIZE(h, FTRP(h, NEXT_BLKP(h, bp))))

\* fault injection: neighbours are never merged
coalesce_cases_none(h, bp, prev_alloc, next_alloc, size) ==
    [h |-> h, bp |-> bp, size |-> size]

coalesce_cases(h, bp, prev_alloc, next_alloc, size) ==
    IF prev_alloc # 0 /\ next_alloc # 0
    THEN [h |-> h, bp |-> bp, size |-> size]
    ELSE IF prev_alloc # 0 /\ next_alloc = 0
    THEN coalesce_case2(h, bp, size)
    ELSE IF prev_alloc = 0 /\ next_alloc # 0
    THEN coalesce_case3(h, bp, size)
    ELSE coalesce_case4(h, bp, size)

\* fault injection: the next block keeps its PREV_ALLOC bit
coalesce_clear_none(h, bp) == h
\* PUT(HDRP(NEXT_BLKP(bp)), (GET(HDRP(NEXT_BLKP(bp))) & (~0x2)));
coalesce_clear(h, bp) ==
    PUT(h, HDRP(NEXT_BLKP(h, bp)), AndNot(GET(h, HDRP(NEXT_BLKP(h, bp))), 2))

\* insert_list(bp, size); ...; return bp;
coalesce_insert(c) ==
    [h |-> coalesce_clear(insert_list(c.h, c.bp, c.size), c.bp), ret |-> c.bp]

coalesce(h, bp) ==
    coalesce_insert(
        coalesce_cases(h, bp, GET_PREV_ALLOC(h, HDRP(bp)),
                       GET_ALLOC(h, HDRP(NEXT_BLKP(h, bp))), GET_SIZE(h, HDRP(bp))))

(* ------------------------------------------------------------------ *)
(* place - place a block of asize bytes at the start of free block bp  *)
(* ------------------------------------------------------------------ *)
\* PUT(HDRP(bp), PACK(size, 1+GET_PREV_ALLOC(HDRP(bp))));
place_hdr(h, bp, size) == PUT(h, HDRP(bp), PACK(size, 1 + GET_PREV_ALLOC(h, HDRP(bp))))
\* insert_list(bp, size); PUT(HDRP(bp), PACK(size, 2)); PUT(FTRP(bp), PACK(size, 0));
place_rest(h, bp, size) ==
    PUT_FTRP(PUT(insert_list(h, bp, size), HDRP(bp), PACK(size, 2)), bp, PACK(size, 0))
\* bp = NEXT_BLKP(bp);
place_split(h, bp, size) == place_rest(h, NEXT_BLKP(h, bp), size)
\* PUT(HDRP(NEXT_BLKP(bp)), (GET(HDRP(NEXT_BLKP(bp))) | (0x2)));
place_mark(h, bp) ==
    PUT(h, HDRP(NEXT_BLKP(h, bp)), BitOr(GET(h, HDRP(NEXT_BLKP(h, bp))), 2))

\* fault injection: a remainder of one double word is split off as well
place_block_eager(h, bp, asize, csize) ==
    IF UGE(csize - asize, DSIZE)
    THEN place_split(place_hdr(h, bp, asize), bp, csize - asize)
    ELSE place_mark(place_hdr(h, bp, csize), bp)

place_block(h, bp, asize, csize) ==
    IF UGE(csize - asize, 2 * DSIZE)
    THEN place_split(place_hdr(h, bp, asize), bp, csize - asize)
    ELSE place_mark(place_hdr(h, bp, csize), bp)

place(h, bp, asize) ==
    place_block(remove_list(h, bp, GET_SIZE(h, HDRP(bp))), bp, asize,
                GET_SIZE(h, HDRP(bp)))

(* ------------------------------------------------------------------ *)
(* extend_heap - ask for more heap memory                              *)
(* ------------------------------------------------------------------ *)
\* an even number of words
extend_heap_size(words) ==
    IF words % 2 # 0 THEN (words + 1) * WSIZE ELSE words * WSIZE
\* PUT(HDRP(bp), PACK(size, GET_PREV_ALLOC(HDRP(bp))));
extend_heap_hdr(h, bp, size) ==
    PUT(h, HDRP(bp), PACK(size, GET_PREV_ALLOC(h, HDRP(bp))))
\* PUT(HDRP(NEXT_BLKP(bp)), PACK(0, 1));
extend_heap_epilogue(h, bp) == PUT(h, HDRP(NEXT_BLKP(h, bp)), PACK(0, 1))

extend_heap_block(s, size) ==
    IF s.ret = -1 THEN [h |-> s.h, ret |-> NULL]
    ELSE coalesce(
            extend_heap_epilogue(
                PUT_FTRP(extend_heap_hdr(s.h, s.ret, size), s.ret, PACK(size, 0)),
                s.ret),
            s.ret)

extend_heap(h, words, lim) ==
    extend_heap_block(mem_sbrk(h, extend_heap_size(words), lim), extend_heap_size(words))

(* ------------------------------------------------------------------ *)
(* find_fit - first fit over the size classes                          *)
(* A word outside the arena cannot be read: the scan then ends in a    *)
(* segmentation fault.                                                 *)
(* ------------------------------------------------------------------ *)
InHeap(h, p) == mem_heap_lo <= p /\ p + WSIZE <= h.brk

\* the inner loop: for(; bp != heap_listp; bp = GET_NEXT(bp))
RECURSIVE find_fit_list(_, _, _)
\* fault injection: the first block of a list is taken whatever its size
find_fit_list_any(h, asize, bp) ==
    IF bp = h.heap_listp THEN [ret |-> NULL, segv |-> FALSE]
    ELSE IF ~InHeap(h, HDRP(bp)) THEN [ret |-> NULL, segv |-> TRUE]
    ELSE [ret |-> bp, segv |-> FALSE]

find_fit_list(h, asize, bp) ==
    IF bp = h.heap_listp THEN [ret |-> NULL, segv |-> FALSE]
    ELSE IF ~InHeap(h, HDRP(bp)) THEN [ret |-> NULL, segv |-> TRUE]
    ELSE IF ULE(asize, GET_SIZE(h, HDRP(bp))) THEN [ret |-> bp, segv |-> FALSE]
    ELSE find_fit_list(h, asize, GET_NEXT(h, bp))

\* the outer loop: for(bp = size2ptr(size); size <= 8192; bp = size2ptr(size))
RECURSIVE find_fit_from(_, _, _, _)
find_fit_next(h, asize, size, r) ==
    IF r.segv \/ r.ret # NULL THEN r
    ELSE find_fit_from(h, asize, size * 2, size2ptr(h, size * 2))

\* fault injection: the scan ends before the list of the catch-all class
find_fit_from_short(h, asize, size, bp) ==
    IF size > 4096 THEN [ret |-> NULL, segv |-> FALSE]
    ELSE find_fit_next(h, asize, size, find_fit_list(h, asize, bp))

find_fit_from(h, asize, size, bp) ==
    IF size > 8192 THEN [ret |-> NULL, segv |-> FALSE]
    ELSE find_fit_next(h, asize, size, find_fit_list(h, asize, bp))

\* fault injection: the scan leaves out the list of the smallest class
find_fit_above(h, asize) == find_fit_from(h, asize, 32, size2ptr(h, 32))

find_fit(h, asize) == find_fit_from(h, asize, 16, size2ptr(h, 16))

(* ------------------------------------------------------------------ *)
(* mm_init                                                             *)
(* ------------------------------------------------------------------ *)
\* padding, prologue header and footer, epilogue header at the old break p
mm_init_prologue(h, p) ==
    PUT(PUT(PUT(PUT(h, p, 0),
                p + (1 * WSIZE), PACK(DSIZE, 3)),
            p + (2 * WSIZE), PACK(DSIZE, 3)),
        p + (3 * WSIZE), PACK(0, 3))

\* heap_listp += (2*WSIZE); root = heap_listp; root1 = root; ... root10 = root;
mm_init_roots(h, lp) ==
    [h EXCEPT !.heap_listp = lp, !.root = lp,
              !.root1 = lp, !.root2 = lp, !.root3 = lp, !.root4 = lp, !.root5 = lp,
              !.root6 = lp, !.root7 = lp, !.root8 = lp, !.root9 = lp, !.root10 = lp]

\* if (extend_heap(CHUNKSIZE/WSIZE) == NULL) return -1; return 0;
mm_init_extend(e) ==
    IF e.ret = NULL THEN [h |-> e.h, ret |-> -1] ELSE [h |-> e.h, ret |-> 0]

\* s is the outcome of mem_sbrk(4*WSIZE), which is assigned to heap_listp
mm_init_heap(s, lim) ==
    IF s.ret = -1 THEN [h |-> [s.h EXCEPT !.heap_listp = -1], ret |-> -1]
    ELSE mm_init_extend(
            extend_heap(
                mm_init_roots(mm_init_prologue(s.h, s.ret), s.ret + (2 * WSIZE)),
                CHUNKSIZE \div WSIZE, lim))

\* fault injection: the heap starts without the alignment padding word
mm_init_heap_unpadded(s, lim) ==
    IF s.ret = -1 THEN [h |-> [s.h EXCEPT !.heap_listp = -1], ret |-> -1]
    ELSE mm_init_extend(
            extend_heap(
                mm_init_roots(
                    PUT(PUT(PUT(s.h, s.ret, PACK(DSIZE, 3)),
                            s.ret + (1 * WSIZE), PACK(DSIZE, 3)),
                        s.ret + (2 * WSIZE), PACK(0, 3)),
                    s.ret + (1 * WSIZE)),
                CHUNKSIZE \div WSIZE, lim))

mm_init_unpadded(h, lim) == mm_init_heap_unpadded(mem_sbrk(h, 3 * WSIZE, lim), lim)

mm_init(h, lim) == mm_init_heap(mem_sbrk(h, 4 * WSIZE, lim), lim)

(* ------------------------------------------------------------------ *)
(* malloc                                                              *)
(* The result carries the heap, the returned pointer, the fault the    *)
(* call ended in, and whether a growth request failed.                 *)
(* ------------------------------------------------------------------ *)
\* the adjusted block size: overhead and alignment
adjust_size(size) ==
    IF ULE(size, WSIZE) THEN 2 * DSIZE
    ELSE DSIZE * ((size + WSIZE + (DSIZE - 1)) \div DSIZE)

\* fault injection: a refused growth still moves the break
malloc_extend_moved(e, asize, initfail) ==
    IF e.ret = NULL
    THEN [h |-> [e.h EXCEPT !.brk = e.h.brk + DSIZE], ret |-> NULL,
          fault |-> NoFault, oom |-> TRUE]
    ELSE [h |-> place(e.h, e.ret, asize), ret |-> e.ret, fault |-> NoFault,
          oom |-> initfail]

\* no fit found: get more memory and place the block
malloc_extend(e, asize, initfail) ==
    IF e.ret = NULL
    THEN [h |-> e.h, ret |-> NULL, fault |-> NoFault, oom |-> TRUE]
    ELSE [h |-> place(e.h, e.ret, asize), ret |-> e.ret, fault |-> NoFault,
          oom |-> initfail]

\* f is the outcome of find_fit(asize)
malloc_fit(h, f, asize, initfail, lim) ==
    IF f.segv
    THEN [h |-> h, ret |-> NULL, fault |-> "find_fit", oom |-> initfail]
    ELSE IF f.ret # NULL
    THEN [h |-> place(h, f.ret, asize), ret |-> f.ret, fault |-> NoFault,
          oom |-> initfail]
    ELSE malloc_extend(extend_heap(h, MAX(asize, CHUNKSIZE) \div WSIZE, lim),
                       asize, initfail)

\* i is the outcome of the mm_init of an uninitialised heap
malloc_request(i, size, lim) ==
    IF size = 0
    THEN [h |-> i.h, ret |-> NULL, fault |-> NoFault, oom |-> i.ret = -1]
    ELSE malloc_fit(i.h, find_fit(i.h, adjust_size(size)), adjust_size(size),
                    i.ret = -1, lim)

malloc(h, size, lim) ==
    malloc_request(IF h.heap_listp = 0 THEN mm_init(h, lim) ELSE [h |-> h, ret |-> 0],
                   size, lim)

(* ------------------------------------------------------------------ *)
(* free                                                                *)
(* ------------------------------------------------------------------ *)
\* PUT(HDRP(bp), PACK(size, 0) | GET_PREV_ALLOC(HDRP(bp)));
free_hdr(h, bp, size) ==
    PUT(h, HDRP(bp), BitOr(PACK(size, 0), GET_PREV_ALLOC(h, HDRP(bp))))

\* fault injection: the block is not released
free_block_kept(h, bp, size) == h

free_block(h, bp, size) ==
    coalesce(PUT_FTRP(free_hdr(h, bp, size), bp, PACK(size, 0)), bp).h

free(h, bp, lim) ==
    IF bp = 0 THEN h
    ELSE free_block(IF h.heap_listp = 0 THEN mm_init(h, lim).h ELSE h, bp,
                    GET_SIZE(h, HDRP(bp)))

(* ------------------------------------------------------------------ *)
(* memcpy, memset on the bytes of the arena                            *)
(* ------------------------------------------------------------------ *)
memcpy_bytes(h, dst, src, kept, copied) ==
    [h EXCEPT !.mem =
        [a \in kept \cup copied |->
            IF a \in copied THEN h.mem[a - (dst - src)] ELSE h.mem[a]]]

\* fault injection: nothing is copied
memcpy_none(h, dst, src, n) == h

memcpy(h, dst, src, n) ==
    memcpy_bytes(h, dst, src,
                 {a \in DOMAIN h.mem : a < dst \/ a >= dst + n},
                 {a + (dst - src) : a \in {b \in DOMAIN h.mem : src <= b /\ b < src + n}})

memset(h, dst, c, n) ==
    [h EXCEPT !.mem = [a \in dst..(dst + n - 1) |-> c] @@ h.mem]

(* ------------------------------------------------------------------ *)
(* realloc                                                             *)
(* ------------------------------------------------------------------ *)
\* the number of bytes realloc copies out of the old block
copy_len(oldsize, size) == IF ULT(size, oldsize) THEN size ELSE oldsize

\* fault injection: the old block is released although the new one failed
realloc_copy_release(m, oldptr, size, lim) ==
    IF m.ret = NULL
    THEN [h |-> free(m.h, oldptr, lim), ret |-> 0, fault |-> NoFault, oom |-> m.oom]
    ELSE [h |-> free(memcpy(m.h, m.ret, oldptr,
                            copy_len(GET_SIZE(m.h, HDRP(oldptr)), size)),
                     oldptr, lim),
          ret |-> m.ret, fault |-> NoFault, oom |-> m.oom]

\* m is the outcome of the malloc(size) of the new block
realloc_copy(m, oldptr, size, lim) ==
    IF m.ret = NULL THEN [m EXCEPT !.ret = 0]
    ELSE [h |-> free(memcpy(m.h, m.ret, oldptr,
                            copy_len(GET_SIZE(m.h, HDRP(oldptr)), size)),
                     oldptr, lim),
          ret |-> m.ret, fault |-> NoFault, oom |-> m.oom]

realloc(h, oldptr, size, lim) ==
    IF size = 0
    THEN [h |-> free(h, oldptr, lim), ret |-> 0, fault |-> NoFault, oom |-> FALSE]
    ELSE IF oldptr = NULL THEN malloc(h, size, lim)
    ELSE realloc_copy(malloc(h, size, lim), oldptr, size, lim)

(* ------------------------------------------------------------------ *)
(* calloc                                                              *)
(* A memset of a positive number of bytes through a null pointer is a  *)
(* segmentation fault.                                                 *)
(* ------------------------------------------------------------------ *)
\* m is the outcome of malloc(bytes)
calloc_clear(m, bytes) ==
    IF m.fault # NoFault THEN m
    ELSE IF m.ret = NULL /\ bytes > 0 THEN [m EXCEPT !.fault = "memset"]
    ELSE IF m.ret = NULL THEN m
    ELSE [m EXCEPT !.h = memset(m.h, m.ret, 0, bytes)]

calloc(h, nmemb, size, lim) == calloc_clear(malloc(h, nmemb * size, lim), nmemb * size)

(* ------------------------------------------------------------------ *)
(* mm_checkheap                                                        *)
(* The outcome is the message the checker exits with, "return" when it *)
(* returns, "segv" when it reads a word outside the arena, or "loop"   *)
(* when its heap walk does not end.  The words it reads need not be    *)
(* words the allocator wrote: a byte that was never written reads as   *)
(* junk.                                                               *)
(* ------------------------------------------------------------------ *)
\* *(unsigned int *)p over written and unwritten bytes
ByteAt(h, a, junk) == IF a \in DOMAIN h.mem THEN h.mem[a] ELSE junk

GET_any(h, p, junk) ==
    ByteAt(h, p, junk) + 256 * ByteAt(h, p + 1, junk)
    + 65536 * ByteAt(h, p + 2, junk) + 16777216 * ByteAt(h, p + 3, junk)

\* rounds up to the nearest multiple of ALIGNMENT
ALIGN(p) == AndNot(p + (ALIGNMENT - 1), 7)
aligned(p) == ALIGN(p) = p
\* p <= mem_heap_hi() && p >= mem_heap_lo()
in_heap(h, p) == p <= h.brk - 1 /\ p >= mem_heap_lo

\* (size_t)ptr - (size_t)heap_listp > ((size_t)(0x1)<<32)
checkheap_exceeds(d) ==
    \/ d < 0
    \/ d \div 65536 > 65536
    \/ (d \div 65536 = 65536 /\ d % 65536 > 0)

\* for(ptr = heap_listp; GET_SIZE(ptr)>0; ptr = (void *)GET_NEXT(ptr))
RECURSIVE checkheap_blocks(_, _, _, _)
checkheap_blocks(h, ptr, junk, fuel) ==
    IF fuel = 0 THEN [exit |-> "loop", ptr |-> ptr]
    ELSE IF ~InHeap(h, ptr) THEN [exit |-> "segv", ptr |-> ptr]
    ELSE IF AndNot(GET_any(h, ptr, junk), 7) = 0 THEN [exit |-> "", ptr |-> ptr]
    ELSE IF ~aligned(ptr) THEN [exit |-> "Alignment Error", ptr |-> ptr]
    ELSE IF ~in_heap(h, ptr) THEN [exit |-> "Block not in heap", ptr |-> ptr]
    ELSE IF ~InHeap(h, ptr + WSIZE) THEN [exit |-> "segv", ptr |-> ptr]
    ELSE checkheap_blocks(h, OF2ADDR(h, GET_any(h, ptr + WSIZE, junk)), junk, fuel - 1)

\* the body of the inner loop of the free list check, next being GET_NEXT(ptr)
checkheap_links(h, ptr, next, size, junk) ==
    IF ~InHeap(h, next) THEN "segv"
    ELSE IF OF2ADDR(h, GET_any(h, next, junk)) # ptr THEN "Next/Previous pointer error"
    ELSE IF ~InHeap(h, HDRP(ptr)) \/ ~InHeap(h, HDRP(next)) THEN "segv"
    ELSE IF \/ AndNot(GET_any(h, HDRP(ptr), junk), 7) > size
            \/ AndNot(GET_any(h, HDRP(next), junk), 7) > size
    THEN "Exceed Bucket Range"
    ELSE ""

\* for(; (void *)GET_NEXT(ptr) != heap_listp; ptr = (void *)GET_NEXT(ptr))
RECURSIVE checkheap_list(_, _, _, _, _)
checkheap_list(h, ptr, size, junk, fuel) ==
    IF fuel = 0 THEN "loop"
    ELSE IF ~InHeap(h, ptr + WSIZE) THEN "segv"
    ELSE IF OF2ADDR(h, GET_any(h, ptr + WSIZE, junk)) = h.heap_listp THEN ""
    ELSE IF checkheap_links(h, ptr, OF2ADDR(h, GET_any(h, ptr + WSIZE, junk)),
                            size, junk) # ""
    THEN checkheap_links(h, ptr, OF2ADDR(h, GET_any(h, ptr + WSIZE, junk)), size, junk)
    ELSE checkheap_list(h, OF2ADDR(h, GET_any(h, ptr + WSIZE, junk)), size, junk,
                        fuel - 1)

\* for(ptr = size2ptr(size); size<=8192; ptr = size2ptr(size))
RECURSIVE checkheap_lists(_, _, _)
checkheap_lists(h, size, junk) ==
    IF size > 8192 THEN "return"
    ELSE IF checkheap_list(h, size2ptr(h, size), size, junk, MaxWalk) # ""
    THEN checkheap_list(h, size2ptr(h, size), size, junk, MaxWalk)
    ELSE checkheap_lists(h, size * 2, junk)

\* b is the outcome of the heap check
checkheap_after_blocks(h, b, junk) ==
    IF b.exit # "" THEN b.exit
    ELSE IF checkheap_exceeds(b.ptr - h.heap_listp)
    THEN "Heap Exceed Boundaries of 2^32"
    ELSE checkheap_lists(h, 16, junk)

mm_checkheap(h, junk) ==
    checkheap_after_blocks(h, checkheap_blocks(h, h.heap_listp, junk, MaxWalk), junk)

(* ------------------------------------------------------------------ *)
(* tsh: the job list                                                   *)
(* A pointer to a job is the index of its entry in job_list, the null  *)
(* pointer is 0.  The command line of a job is left out.               *)
(* ------------------------------------------------------------------ *)
\* job states
UNDEF == 0
FG == 1
BG == 2
ST == 3

MinOf(S) == CHOOSE m \in S : \A x \in S : m <= x
MaxOf(S) == CHOOSE m \in S : \A x \in S : x <= m

\* clearjob
EmptyJob == [pid |-> 0, jid |-> 0, state |-> UNDEF]
clearjob(jl, i) == [jl EXCEPT ![i] = EmptyJob]

initjobs == [i \in 1..MAXJOBS |-> EmptyJob]

maxjid(jl) == MaxOf({jl[i].jid : i \in DOMAIN jl} \cup {0})

\* the entries that the loops of the helpers stop at; the array jl has
\* MAXJOBS entries, Len(jl) in a run with a list of another length
SlotsOfPid(jl, pid) == {i \in DOMAIN jl : jl[i].pid = pid}
SlotsOfJid(jl, jid) == {i \in DOMAIN jl : jl[i].jid = jid}
SlotsOfState(jl, state) == {i \in DOMAIN jl : jl[i].state = state}

\* job_list[i].pid = pid; job_list[i].state = state; job_list[i].jid = nextjid++;
\* if (nextjid > MAXJOBS) nextjid = 1;
addjob_at(jl, nj, i, pid, state) ==
    [job_list |-> [jl EXCEPT ![i] = [pid |-> pid, jid |-> nj, state |-> state]],
     nextjid |-> IF nj + 1 > Len(jl) THEN 1 ELSE nj + 1,
     ret |-> 1]

addjob(jl, nj, pid, state) ==
    IF pid < 1 \/ SlotsOfPid(jl, 0) = {}
    THEN [job_list |-> jl, nextjid |-> nj, ret |-> 0]
    ELSE addjob_at(jl, nj, MinOf(SlotsOfPid(jl, 0)), pid, state)

\* clearjob(&job_list[i]); nextjid = maxjid(job_list)+1;
deletejob_at(jl, i) ==
    [job_list |-> clearjob(jl, i), nextjid |-> maxjid(clearjob(jl, i)) + 1, ret |-> 1]

deletejob(jl, nj, pid) ==
    IF pid < 1 \/ SlotsOfPid(jl, pid) = {}
    THEN [job_list |-> jl, nextjid |-> nj, ret |-> 0]
    ELSE deletejob_at(jl, MinOf(SlotsOfPid(jl, pid)))

fgpid(jl) ==
    IF SlotsOfState(jl, FG) = {} THEN 0 ELSE jl[MinOf(SlotsOfState(jl, FG))].pid

getjobpid(jl, pid) ==
    IF pid < 1 \/ SlotsOfPid(jl, pid) = {} THEN NULL ELSE MinOf(SlotsOfPid(jl, pid))

getjobjid(jl, jid) ==
    IF jid < 1 \/ SlotsOfJid(jl, jid) = {} THEN NULL ELSE MinOf(SlotsOfJid(jl, jid))

(* ------------------------------------------------------------------ *)
(* tsh: the child processes and the signals sent to them               *)
(* A process is unborn, running, stopped, a zombie or reaped.  own     *)
(* says that it has made its own process group with setpgid(0, 0);     *)
(* until then it is in the process group of the shell.  report is the  *)
(* change of status that waitpid has not returned yet, doomed a        *)
(* terminating signal that a stopped process has pending.  at says     *)
(* what the process executes: "eval" or "nohup", the code of the shell *)
(* behind the fork of eval or of builtin_nohup, "program" after an     *)
(* execve that succeeded, "loop" the read loop of main, to which the   *)
(* child returns from eval when execve has failed.  A program keeps    *)
(* the default actions of the signals; a child in the read loop has    *)
(* the handlers of the shell for SIGINT and SIGTSTP.                   *)
(* ------------------------------------------------------------------ *)
Unborn == [status |-> "unborn", own |-> FALSE, report |-> "none", doomed |-> FALSE,
           at |-> "none"]
Forked == [status |-> "running", own |-> FALSE, report |-> "none", doomed |-> FALSE,
           at |-> "eval"]
\* the child that builtin_nohup forks
ForkedNohup == [Forked EXCEPT !.at = "nohup"]

Pids == 1..MaxProcs

Alive(pr) == pr.status \in {"running", "stopped"}

\* the processes that kill(target, sig) signals: one process, the
\* process group -target, or the process group of the shell
Receivers(ps, target) ==
    IF target > 0 THEN {p \in Pids : p = target /\ Alive(ps[p])}
    ELSE IF target < 0 THEN {p \in Pids : p = 0 - target /\ ps[p].own /\ Alive(ps[p])}
    ELSE {p \in Pids : ~ps[p].own /\ Alive(ps[p])}

\* the default action of sig on one process
Hit(pr, sig) ==
    IF pr.at = "loop" /\ sig \in {"SIGINT", "SIGTSTP"} THEN pr
    ELSE IF sig \in {"SIGINT", "SIGTERM"}
    THEN IF pr.status = "running"
         THEN [pr EXCEPT !.status = "zombie", !.report = "signaled"]
         ELSE IF pr.status = "stopped" THEN [pr EXCEPT !.doomed = TRUE]
         ELSE pr
    ELSE IF sig = "SIGTSTP"
    THEN IF pr.status = "running"
         THEN [pr EXCEPT !.status = "stopped", !.report = "stopped"]
         ELSE pr
    ELSE IF pr.status = "stopped"
    THEN IF pr.doomed
         THEN [pr EXCEPT !.status = "zombie", !.report = "signaled", !.doomed = FALSE]
         ELSE [pr EXCEPT !.status = "running", !.report = "none"]
    ELSE pr

\* kill(target, sig)
kill(ps, target, sig) ==
    [p \in Pids |-> IF p \in Receivers(ps, target) THEN Hit(ps[p], sig) ELSE ps[p]]

\* the kernel sends SIGCHLD when a child has stopped or terminated
Raised(ps0, ps1) ==
    \E p \in Pids : ps1[p].report # "none" /\ ps1[p].report # ps0[p].report

(* ------------------------------------------------------------------ *)
(* tsh: sigchld_handler                                                *)
(* s is the job list with nextjid, the processes, and whether the      *)
(* handler has dereferenced a null job.                                *)
(* ------------------------------------------------------------------ *)
Reportable(ps) == {p \in Pids : ps[p].report # "none"}

\* the job list after the handler's branch for the child pid
sigchld_job(s, pid) ==
    IF s.procs[pid].report \in {"exited", "signaled"}
    THEN deletejob(s.job_list, s.nextjid, pid)
    ELSE IF getjobpid(s.job_list, pid) = NULL
    THEN [job_list |-> s.job_list, nextjid |-> s.nextjid, ret |-> -1]
    ELSE [job_list |-> [s.job_list EXCEPT ![getjobpid(s.job_list, pid)].state = ST],
          nextjid |-> s.nextjid, ret |-> 1]

\* waitpid has returned pid: a zombie is reaped, a stop is reported once
sigchld_waited(pr) ==
    IF pr.status = "zombie" THEN [pr EXCEPT !.status = "reaped", !.report = "none"]
    ELSE [pr EXCEPT !.report = "none"]

sigchld_child(s, j, pid) ==
    [job_list |-> j.job_list, nextjid |-> j.nextjid,
     procs |-> [s.procs EXCEPT ![pid] = sigchld_waited(s.procs[pid])],
     segv |-> j.ret = -1]

\* while((pid = waitpid(-1, &status, WNOHANG|WUNTRACED))>0)
RECURSIVE sigchld_loop(_)
sigchld_loop(s) ==
    IF s.segv \/ Reportable(s.procs) = {} THEN s
    ELSE sigchld_loop(
            sigchld_child(s, sigchld_job(s, MinOf(Reportable(s.procs))),
                          MinOf(Reportable(s.procs))))

sigchld_handler(jl, nj, ps) ==
    sigchld_loop([job_list |-> jl, nextjid |-> nj, procs |-> ps, segv |-> FALSE])

(* ------------------------------------------------------------------ *)
(* The state: the allocator's globals and arena (heap), the caller's   *)
(* live allocations (payload pointer -> requested bytes), the last     *)
(* call with its result, the fault the process has ended in, and the   *)
(* number of calls made.                                               *)
(* ------------------------------------------------------------------ *)
\* the break the growth primitive does not pass during one call
Limit(h, room) ==
    IF h.brk + room > mem_heap_lo + MaxHeap THEN mem_heap_lo + MaxHeap ELSE h.brk + room

\* the 16 bytes of mm_init's first request matter to an uninitialised heap only
RoomsOf(h) == IF h.heap_listp = 0 THEN Rooms ELSE Rooms \ {4 * WSIZE}

\* the locals of eval and builtin_fg between two command lines
NoFrame == [pid |-> 0, job |-> NULL, bg |-> FALSE]
\* no handler step has sent a signal
NoSignal == [sig |-> "none", to |-> {}]

Init ==
    /\ heap = [mem |-> <<>>, brk |-> mem_heap_lo, heap_listp |-> 0, root |-> 0,
               root1 |-> 0, root2 |-> 0, root3 |-> 0, root4 |-> 0, root5 |-> 0,
               root6 |-> 0, root7 |-> 0, root8 |-> 0, root9 |-> 0, root10 |-> 0]
    /\ live = <<>>
    /\ last = [op |-> "none", ptr |-> NULL, size |-> 0, ret |-> NULL, oom |-> FALSE]
    /\ fault = NoFault
    /\ calls = 0
    /\ job_list = initjobs
    /\ nextjid = 1
    /\ pc = "read"
    /\ frame = NoFrame
    /\ procs = [p \in Pids |-> Unborn]
    /\ sigchld = FALSE
    /\ sent = NoSignal

Without(f, p) == [q \in DOMAIN f \ {p} |-> f[q]]
With(f, p, n) == [q \in DOMAIN f \cup {p} |-> IF q = p THEN n ELSE f[q]]

\* The caller goes on until the process faults or it is handed an
\* allocation of a wrapped size, and makes at most MaxCalls calls.
Running ==
    /\ fault = NoFault
    /\ calls < MaxCalls
    /\ \A p \in DOMAIN live : live[p] >= 0

\* the driver initialises the heap before its first request
MmInit ==
    /\ UNCHANGED tshvars
    /\ Running
    /\ calls' = calls + 1
    /\ heap.heap_listp = 0
    /\ \E room \in RoomsOf(heap) :
         \E r \in {mm_init(heap, Limit(heap, room))} :
             /\ heap' = r.h
             /\ last' = [op |-> "mm_init", ptr |-> NULL, size |-> 0, ret |-> r.ret,
                         oom |-> r.ret = -1]
    /\ UNCHANGED <<live, fault>>

Malloc ==
    /\ UNCHANGED tshvars
    /\ Running
    /\ calls' = calls + 1
    /\ \E size \in ReqSizes \cup WideSizes, room \in RoomsOf(heap) :
         /\ size = 0 \/ Cardinality(DOMAIN live) < MaxLive
         /\ \E r \in {malloc(heap, size, Limit(heap, room))} :
                /\ heap' = r.h
                /\ fault' = r.fault
                /\ live' = IF r.ret # NULL THEN With(live, r.ret, size) ELSE live
                /\ last' = [op |-> "malloc", ptr |-> NULL, size |-> size,
                            ret |-> r.ret, oom |-> r.oom]

Free ==
    /\ UNCHANGED tshvars
    /\ Running
    /\ calls' = calls + 1
    /\ \E p \in DOMAIN live :
         /\ heap' = free(heap, p, Limit(heap, 0))
         /\ live' = Without(live, p)
         /\ last' = [op |-> "free", ptr |-> p, size |-> 0, ret |-> NULL, oom |-> FALSE]
    /\ UNCHANGED fault

Realloc ==
    /\ UNCHANGED tshvars
    /\ Running
    /\ calls' = calls + 1
    /\ \E p \in DOMAIN live \cup {NULL}, size \in ReqSizes, room \in RoomsOf(heap) :
         /\ p # NULL \/ size = 0 \/ Cardinality(DOMAIN live) < MaxLive
         /\ \E r \in {realloc(heap, p, size, Limit(heap, room))} :
                /\ heap' = r.h
                /\ fault' = r.fault
                /\ live' = IF size = 0 THEN Without(live, p)
                           ELSE IF r.ret = NULL THEN live
                           ELSE With(Without(live, p), r.ret, size)
                /\ last' = [op |-> "realloc", ptr |-> p, size |-> size,
                            ret |-> r.ret, oom |-> r.oom]

Calloc ==
    /\ UNCHANGED tshvars
    /\ Running
    /\ calls' = calls + 1
    /\ \E a \in CallocArgs, room \in RoomsOf(heap) :
         /\ a[1] * a[2] = 0 \/ Cardinality(DOMAIN live) < MaxLive
         /\ \E r \in {calloc(heap, a[1], a[2], Limit(heap, room))} :
                /\ heap' = r.h
                /\ fault' = r.fault
                /\ live' = IF r.ret # NULL /\ r.fault = NoFault
                           THEN With(live, r.ret, a[1] * a[2]) ELSE live
                /\ last' = [op |-> "calloc", ptr |-> NULL, size |-> a[1] * a[2],
                            ret |-> r.ret, oom |-> r.oom]

\* the caller stores into the first and the last byte of a live payload
Store ==
    /\ UNCHANGED tshvars
    /\ Running
    /\ calls' = calls + 1
    /\ \E p \in DOMAIN live :
         /\ live[p] > 0
         /\ heap' = memset(memset(heap, p, Tag, 1), p + live[p] - 1, Tag, 1)
         /\ last' = [op |-> "store", ptr |-> p, size |-> live[p], ret |-> NULL,
                     oom |-> FALSE]
    /\ UNCHANGED <<live, fault>>

Next == MmInit \/ Malloc \/ Free \/ Realloc \/ Calloc \/ Store

Spec == Init /\ [][Next]_vars

(* ------------------------------------------------------------------ *)
(* Traces: longer runs of allocate and release alone, with a growth    *)
(* primitive that has all of MaxHeap to give.                          *)
(* ------------------------------------------------------------------ *)
TraceRunning == fault = NoFault /\ calls < MaxTrace

TraceMalloc ==
    /\ UNCHANGED tshvars
    /\ TraceRunning
    /\ calls' = calls + 1
    /\ Cardinality(DOMAIN live) < MaxLive
    /\ \E size \in TraceSizes :
         \E r \in {malloc(heap, size, mem_heap_lo + MaxHeap)} :
             /\ heap' = r.h
             /\ fault' = r.fault
             /\ live' = IF r.ret # NULL THEN With(live, r.ret, size) ELSE live
             /\ last' = [op |-> "malloc", ptr |-> NULL, size |-> size,
                         ret |-> r.ret, oom |-> r.oom]

TraceFree ==
    /\ UNCHANGED tshvars
    /\ TraceRunning
    /\ calls' = calls + 1
    /\ \E p \in DOMAIN live :
         /\ heap' = free(heap, p, mem_heap_lo + MaxHeap)
         /\ live' = Without(live, p)
         /\ last' = [op |-> "free", ptr |-> p, size |-> 0, ret |-> NULL, oom |-> FALSE]
    /\ UNCHANGED fault

TraceNext == TraceMalloc \/ TraceFree

TraceSpec == Init /\ [][TraceNext]_vars

(* ------------------------------------------------------------------ *)
(* A scripted run that the checker is applied to.  The script fills    *)
(* the arena with one block per size class, each followed by a small   *)
(* block that stays allocated, and releases the class blocks; its last *)
(* step makes the second block of the arena FREE next to the FREE      *)
(* first block without merging the two, which no call of the allocator *)
(* does: that heap is the input the checker exists for.  mm_checkheap  *)
(* may run after every step.                                           *)
(* ------------------------------------------------------------------ *)
ScriptStep(op, sizes) == [op |-> op, sizes |-> sizes]

Script ==
    << ScriptStep("malloc", {8, 17}), ScriptStep("malloc", {65528}),
       ScriptStep("malloc", {1}), ScriptStep("malloc", {24}),
       ScriptStep("malloc", {1}), ScriptStep("malloc", {50}),
       ScriptStep("malloc", {1}), ScriptStep("malloc", {100}),
       ScriptStep("malloc", {1}), ScriptStep("malloc", {200}),
       ScriptStep("malloc", {1}), ScriptStep("malloc", {400}),
       ScriptStep("malloc", {1}), ScriptStep("malloc", {900}),
       ScriptStep("malloc", {1}), ScriptStep("malloc", {2036}),
       ScriptStep("malloc", {1}), ScriptStep("malloc", {3000}),
       ScriptStep("malloc", {1}),
       ScriptStep("free", {24}), ScriptStep("free", {50}),
       ScriptStep("free", {100}), ScriptStep("free", {200}),
       ScriptStep("free", {400}), ScriptStep("free", {900}),
       ScriptStep("free", {2036}), ScriptStep("free", {3000}),
       ScriptStep("free", {8, 17}), ScriptStep("unmerged", {65528}) >>

\* the block at bp is marked FREE and linked into its list, its FREE
\* neighbours are left as they are
free_unmerged(h, bp, size) ==
    coalesce_insert([h |-> PUT_FTRP(free_hdr(h, bp, size), bp, PACK(size, 0)),
                     bp |-> bp, size |-> size]).h

ScriptRunning(op) ==
    /\ fault = NoFault
    /\ calls < Len(Script)
    /\ Script[calls + 1].op = op

ScriptMalloc ==
    /\ UNCHANGED tshvars
    /\ ScriptRunning("malloc")
    /\ calls' = calls + 1
    /\ \E size \in Script[calls + 1].sizes :
         \E r \in {malloc(heap, size, mem_heap_lo + ScriptHeap)} :
             /\ heap' = r.h
             /\ fault' = r.fault
             /\ live' = IF r.ret # NULL THEN With(live, r.ret, size) ELSE live
             /\ last' = [op |-> "malloc", ptr |-> NULL, size |-> size,
                         ret |-> r.ret, oom |-> r.oom]

ScriptFree ==
    /\ UNCHANGED tshvars
    /\ ScriptRunning("free")
    /\ calls' = calls + 1
    /\ \E p \in DOMAIN live :
         /\ live[p] \in Script[calls + 1].sizes
         /\ heap' = free(heap, p, mem_heap_lo + ScriptHeap)
         /\ live' = Without(live, p)
         /\ last' = [op |-> "free", ptr |-> p, size |-> 0, ret |-> NULL, oom |-> FALSE]
    /\ UNCHANGED fault

ScriptUnmerged ==
    /\ UNCHANGED tshvars
    /\ ScriptRunning("unmerged")
    /\ calls' = calls + 1
    /\ \E p \in DOMAIN live :
         /\ live[p] \in Script[calls + 1].sizes
         /\ heap' = free_unmerged(heap, p, GET_SIZE(heap, HDRP(p)))
         /\ live' = Without(live, p)
         /\ last' = [op |-> "unmerged", ptr |-> p, size |-> 0, ret |-> NULL,
                     oom |-> FALSE]
    /\ UNCHANGED fault

\* mm_checkheap runs on the heap as it is; an exit ends the process
CheckHeap ==
    /\ UNCHANGED tshvars
    /\ fault = NoFault
    /\ last.op # "mm_checkheap"
    /\ \E junk \in JunkBytes :
         \E r \in {mm_checkheap(heap, junk)} :
             fault' = IF r = "return" THEN NoFault ELSE r
    /\ last' = [op |-> "mm_checkheap", ptr |-> NULL, size |-> 0, ret |-> NULL,
                oom |-> FALSE]
    /\ UNCHANGED <<heap, live, calls>>

CheckNext == ScriptMalloc \/ ScriptFree \/ ScriptUnmerged \/ CheckHeap

CheckSpec == Init /\ [][CheckNext]_vars

(* ------------------------------------------------------------------ *)
(* tsh: the main flow of the shell, its signal handlers, the children  *)
(* pc is "read" at the read loop of main, "eval_forked" in the parent   *)
(* between fork and addjob, where SIGCHLD, SIGINT and SIGTSTP are      *)
(* blocked, "eval_unblocked" between the two sigprocmask calls of      *)
(* eval's parent branch, "eval_wait" and                               *)
(* "fg_wait" at the loop tests of eval and builtin_fg, "eval_suspend"  *)
(* and "fg_suspend" inside their sigsuspend, "crashed" after a         *)
(* dereference of a null job.                                          *)
(* ------------------------------------------------------------------ *)
\* the job ids a command line names
Jids == 1..(MAXJOBS + 1)

\* fault injection: eval does not block SIGCHLD before the fork
Unblocked_early == {"read", "eval_forked", "eval_unblocked", "eval_suspend", "fg_suspend"}
\* SIGCHLD is not blocked at these positions
Unblocked == {"read", "eval_unblocked", "eval_suspend", "fg_suspend"}

\* fault injection: a handler that runs does not end the sigsuspend
Wake_lost(at) == at

\* sigsuspend returns when a handler has run
Wake(at) ==
    IF at = "eval_suspend" THEN "eval_wait"
    ELSE IF at = "fg_suspend" THEN "fg_wait"
    ELSE at

\* the pid that fork returns
NextPid(ps) == MinOf({p \in Pids : ps[p].status = "unborn"})

\* eval of a command line that is no builtin, up to the fork:
\* sigprocmask(SIG_BLOCK, &mask, &prev_mask); pid = fork();
EvalFork ==
    /\ pc = "read"
    /\ \E p \in Pids : procs[p].status = "unborn"
    /\ \E bg \in BOOLEAN : frame' = [pid |-> NextPid(procs), job |-> NULL, bg |-> bg]
    /\ procs' = [procs EXCEPT ![NextPid(procs)] = Forked]
    /\ pc' = "eval_forked"
    /\ sent' = NoSignal
    /\ UNCHANGED <<job_list, nextjid, sigchld>>
    /\ UNCHANGED mmvars

\* the parent branch: addjob(job_list, pid, bg?BG:FG, cmdline);
\* sigprocmask(SIG_SETMASK, &prev_mask, NULL); the line of a background
\* job is printed and eval returns
EvalAddjob ==
    /\ pc = "eval_forked"
    /\ \E a \in {addjob(job_list, nextjid, frame.pid, IF frame.bg THEN BG ELSE FG)} :
         /\ job_list' = a.job_list
         /\ nextjid' = a.nextjid
    /\ pc' = IF frame.bg THEN "read" ELSE "eval_unblocked"
    /\ frame' = IF frame.bg THEN NoFrame ELSE frame
    /\ sent' = NoSignal
    /\ UNCHANGED <<procs, sigchld>>
    /\ UNCHANGED mmvars

\* sigprocmask(SIG_BLOCK, &mask, &prev_mask) before the wait loop of eval
EvalBlock ==
    /\ pc = "eval_unblocked"
    /\ pc' = "eval_wait"
    /\ sent' = NoSignal
    /\ UNCHANGED <<job_list, nextjid, frame, procs, sigchld>>
    /\ UNCHANGED mmvars

\* while(fgpid(job_list)) sigsuspend(&prev_mask); then eval returns
EvalWait ==
    /\ pc = "eval_wait"
    /\ pc' = IF fgpid(job_list) # 0 THEN "eval_suspend" ELSE "read"
    /\ frame' = IF fgpid(job_list) # 0 THEN frame ELSE NoFrame
    /\ sent' = NoSignal
    /\ UNCHANGED <<job_list, nextjid, procs, sigchld>>
    /\ UNCHANGED mmvars

\* bg %jid
BuiltinBg ==
    /\ pc = "read"
    /\ \E jid \in Jids :
         \E job \in {getjobjid(job_list, jid)} :
            IF job = NULL
            THEN pc' = "crashed" /\ UNCHANGED <<job_list, procs, sigchld>>
            ELSE /\ job_list' = [job_list EXCEPT ![job].state = BG]
                 /\ procs' = kill(procs, job_list[job].pid, "SIGCONT")
                 /\ sigchld' = (sigchld \/ Raised(procs, procs'))
                 /\ pc' = "read"
    /\ sent' = NoSignal
    /\ UNCHANGED <<nextjid, frame>>
    /\ UNCHANGED mmvars

\* fg %jid: up to the loop of builtin_fg
BuiltinFg ==
    /\ pc = "read"
    /\ \E jid \in Jids : frame' = [pid |-> 0, job |-> getjobjid(job_list, jid), bg |-> FALSE]
    /\ pc' = "fg_wait"
    /\ sent' = NoSignal
    /\ UNCHANGED <<job_list, nextjid, procs, sigchld>>
    /\ UNCHANGED mmvars

\* while(fgpid(job_list)) sigsuspend(&prev_mask); then job->state = FG;
\* kill(job->pid, SIGCONT); and eval returns
FgWait ==
    /\ pc = "fg_wait"
    /\ IF fgpid(job_list) # 0
       THEN pc' = "fg_suspend" /\ UNCHANGED <<job_list, procs, sigchld, frame>>
       ELSE IF frame.job = NULL
       THEN pc' = "crashed" /\ UNCHANGED <<job_list, procs, sigchld, frame>>
       ELSE /\ job_list' = [job_list EXCEPT ![frame.job].state = FG]
            /\ procs' = kill(procs, job_list[frame.job].pid, "SIGCONT")
            /\ sigchld' = (sigchld \/ Raised(procs, procs'))
            /\ pc' = "read"
            /\ frame' = NoFrame
    /\ sent' = NoSignal
    /\ UNCHANGED nextjid
    /\ UNCHANGED mmvars

\* kill %jid of a job that is in the list
BuiltinKill ==
    /\ pc = "read"
    /\ \E jid \in Jids :
         /\ getjobjid(job_list, jid) # NULL
         /\ procs' = kill(procs, job_list[getjobjid(job_list, jid)].pid, "SIGTERM")
    /\ sigchld' = (sigchld \/ Raised(procs, procs'))
    /\ sent' = NoSignal
    /\ UNCHANGED <<job_list, nextjid, pc, frame>>
    /\ UNCHANGED mmvars

\* nohup prog: builtin_nohup forks and returns; the child is in no
\* entry of the job list
BuiltinNohup ==
    /\ pc = "read"
    /\ \E p \in Pids : procs[p].status = "unborn"
    /\ procs' = [procs EXCEPT ![NextPid(procs)] = ForkedNohup]
    /\ sent' = NoSignal
    /\ UNCHANGED <<job_list, nextjid, pc, frame, sigchld>>
    /\ UNCHANGED mmvars

\* the pending SIGCHLD is delivered
SigchldHandler ==
    /\ sigchld
    /\ pc \in Unblocked
    /\ \E r \in {sigchld_handler(job_list, nextjid, procs)} :
         /\ job_list' = r.job_list
         /\ nextjid' = r.nextjid
         /\ procs' = r.procs
         /\ pc' = IF r.segv THEN "crashed" ELSE Wake(pc)
    /\ sigchld' = FALSE
    /\ sent' = NoSignal
    /\ UNCHANGED frame
    /\ UNCHANGED mmvars

\* sigint_handler: pid = fgpid(job_list); if(pid != 0) kill(-pid, SIGINT);
SigintHandler ==
    /\ pc \notin {"crashed", "eval_forked"}
    /\ procs' = IF fgpid(job_list) # 0
                THEN kill(procs, 0 - fgpid(job_list), "SIGINT") ELSE procs
    /\ sent' = [sig |-> "SIGINT",
                to |-> IF fgpid(job_list) # 0
                       THEN Receivers(procs, 0 - fgpid(job_list)) ELSE {}]
    /\ sigchld' = (sigchld \/ Raised(procs, procs'))
    /\ pc' = Wake(pc)
    /\ UNCHANGED <<job_list, nextjid, frame>>
    /\ UNCHANGED mmvars

\* sigtstp_handler: pid = fgpid(job_list); if(pid != 0) kill(-pid, SIGTSTP);
SigtstpHandler ==
    /\ pc \notin {"crashed", "eval_forked"}
    /\ procs' = IF fgpid(job_list) # 0
                THEN kill(procs, 0 - fgpid(job_list), "SIGTSTP") ELSE procs
    /\ sent' = [sig |-> "SIGTSTP",
                to |-> IF fgpid(job_list) # 0
                       THEN Receivers(procs, 0 - fgpid(job_list)) ELSE {}]
    /\ sigchld' = (sigchld \/ Raised(procs, procs'))
    /\ pc' = Wake(pc)
    /\ UNCHANGED <<job_list, nextjid, frame>>
    /\ UNCHANGED mmvars

\* the child of eval: setpgid(0,0), then the program runs
ChildSetpgid ==
    /\ \E p \in Pids :
         /\ procs[p].status = "running" /\ procs[p].at = "eval"
         /\ procs' = [procs EXCEPT ![p].own = TRUE, ![p].at = "program"]
    /\ sent' = NoSignal
    /\ UNCHANGED <<job_list, nextjid, pc, frame, sigchld>>
    /\ UNCHANGED mmvars

\* the child of eval: setpgid(0,0), then execve fails and returns; the
\* child leaves the if, returns from eval and is in the read loop of main
ChildExecveFails ==
    /\ \E p \in Pids :
         /\ procs[p].status = "running" /\ procs[p].at = "eval"
         /\ procs' = [procs EXCEPT ![p].own = TRUE, ![p].at = "loop"]
    /\ sent' = NoSignal
    /\ UNCHANGED <<job_list, nextjid, pc, frame, sigchld>>
    /\ UNCHANGED mmvars

\* the child of builtin_nohup: execve(tok.argv[1], ...); when it fails
\* the child restores the mask, returns from builtin_cmd and from eval
\* and is in the read loop of main
NohupExecve ==
    /\ \E p \in Pids :
         /\ procs[p].status = "running" /\ procs[p].at = "nohup"
         /\ \E ok \in BOOLEAN :
              procs' = [procs EXCEPT ![p].at = IF ok THEN "program" ELSE "loop"]
    /\ sent' = NoSignal
    /\ UNCHANGED <<job_list, nextjid, pc, frame, sigchld>>
    /\ UNCHANGED mmvars

\* the program of a child exits, or the command loop of a child ends
ChildExit ==
    /\ \E p \in Pids :
         /\ procs[p].status = "running" /\ procs[p].at \in {"program", "loop"}
         /\ procs' = [procs EXCEPT ![p].status = "zombie", ![p].report = "exited"]
    /\ sigchld' = TRUE
    /\ sent' = NoSignal
    /\ UNCHANGED <<job_list, nextjid, pc, frame>>
    /\ UNCHANGED mmvars

\* the program of a child stops itself, or is stopped by the terminal
ChildStop ==
    /\ \E p \in Pids :
         /\ procs[p].status = "running" /\ procs[p].at \in {"program", "loop"}
         /\ procs' = [procs EXCEPT ![p].status = "stopped", ![p].report = "stopped"]
    /\ sigchld' = TRUE
    /\ sent' = NoSignal
    /\ UNCHANGED <<job_list, nextjid, pc, frame>>
    /\ UNCHANGED mmvars

ShellNext ==
    \/ EvalFork \/ EvalAddjob \/ EvalBlock \/ EvalWait
    \/ BuiltinBg \/ BuiltinFg \/ FgWait \/ BuiltinKill \/ BuiltinNohup
    \/ SigchldHandler \/ SigintHandler \/ SigtstpHandler
    \/ ChildSetpgid \/ ChildExecveFails \/ NohupExecve \/ ChildExit \/ ChildStop

ShellSpec == Init /\ [][ShellNext]_vars

(* ------------------------------------------------------------------ *)
(* The job list alone: any sequence of addjob and deletejob calls on   *)
(* a list of JobSlots entries.  The pid of a new job is that of no job *)
(* in the list; the pid of a deleted job may be used again.            *)
(* ------------------------------------------------------------------ *)
JobInit ==
    /\ heap = [mem |-> <<>>, brk |-> mem_heap_lo, heap_listp |-> 0, root |-> 0,
               root1 |-> 0, root2 |-> 0, root3 |-> 0, root4 |-> 0, root5 |-> 0,
               root6 |-> 0, root7 |-> 0, root8 |-> 0, root9 |-> 0, root10 |-> 0]
    /\ live = <<>>
    /\ last = [op |-> "none", ptr |-> NULL, size |-> 0, ret |-> NULL, oom |-> FALSE]
    /\ fault = NoFault
    /\ calls = 0
    /\ job_list = [i \in 1..JobSlots |-> EmptyJob]
    /\ nextjid = 1
    /\ pc = "read"
    /\ frame = NoFrame
    /\ procs = [p \in Pids |-> Unborn]
    /\ sigchld = FALSE
    /\ sent = NoSignal

JobAdd ==
    /\ nextjid <= MaxJid
    /\ \E pid \in 1..JobPids, state \in {FG, BG} :
         /\ SlotsOfPid(job_list, pid) = {}
         /\ \E a \in {addjob(job_list, nextjid, pid, state)} :
              /\ job_list' = a.job_list
              /\ nextjid' = a.nextjid
    /\ UNCHANGED <<pc, frame, procs, sigchld, sent>>
    /\ UNCHANGED mmvars

JobDelete ==
    /\ \E pid \in 1..JobPids :
         /\ SlotsOfPid(job_list, pid) # {}
         /\ \E d \in {deletejob(job_list, nextjid, pid)} :
              /\ job_list' = d.job_list
              /\ nextjid' = d.nextjid
    /\ UNCHANGED <<pc, frame, procs, sigchld, sent>>
    /\ UNCHANGED mmvars

JobNext == JobAdd \/ JobDelete

JobSpec == JobInit /\ [][JobNext]_vars

\* the steps of SigchldHandler: the pending SIGCHLD is taken while it
\* is not blocked
SigchldDelivered == sigchld /\ pc \in Unblocked /\ sigchld' = FALSE

\* The shell with its scheduling: the main flow goes on from the two
\* sigprocmask calls and the loop test of eval, and a pending SIGCHLD is
\* delivered once it is unblocked, however often other handlers run.
ShellLive ==
    /\ ShellSpec
    /\ WF_vars(EvalBlock) /\ WF_vars(EvalWait)
    /\ SF_sigchld(SigchldDelivered)

(* ------------------------------------------------------------------ *)
(* Observations of the heap                                            *)
(* ------------------------------------------------------------------ *)
\* payload pointers of the blocks from bp up to the epilogue
RECURSIVE BlocksFrom(_, _)
BlocksFrom(h, bp) ==
    IF bp > h.brk \/ GET_SIZE(h, HDRP(bp)) = 0 THEN {}
    ELSE {bp} \cup BlocksFrom(h, NEXT_BLKP(h, bp))

\* the blocks of the arena between prologue and epilogue
Blocks(h) ==
    IF h.heap_listp > 0 THEN BlocksFrom(h, NEXT_BLKP(h, h.heap_listp)) ELSE {}

IsFree(h, bp) == GET_ALLOC(h, HDRP(bp)) = 0

\* the list heads in the order of size2ptr, and the index size2ptr selects
Roots(h) ==
    <<h.root1, h.root2, h.root3, h.root4, h.root5,
      h.root6, h.root7, h.root8, h.root9, h.root10>>

ClassIndex ==
    [root1 |-> 1, root2 |-> 2, root3 |-> 3, root4 |-> 4, root5 |-> 5,
     root6 |-> 6, root7 |-> 7, root8 |-> 8, root9 |-> 9, root10 |-> 10]

ClassOf(size) == size2ptr(ClassIndex, size)

\* the blocks linked from bp, followed for at most fuel links
RECURSIVE ListFrom(_, _, _)
ListFrom(h, bp, fuel) ==
    IF bp = h.heap_listp \/ fuel = 0 THEN <<>>
    ELSE <<bp>> \o ListFrom(h, GET_NEXT(h, bp), fuel - 1)

\* the list of class k of an initialised heap; one link more than there are
\* blocks shows a repetition
ListOf(h, k) ==
    IF h.heap_listp > 0 THEN ListFrom(h, Roots(h)[k], Cardinality(Blocks(h)) + 1)
    ELSE <<>>

FreeOfClass(h, k) ==
    {bp \in Blocks(h) : IsFree(h, bp) /\ ClassOf(GET_SIZE(h, HDRP(bp))) = k}

\* the sequence L lists exactly the members of F, each once
ListsExactly(L, F) ==
    Len(L) = Cardinality(F) /\ {L[i] : i \in 1..Len(L)} = F

\* address a lies in the payload range [p, p+n) of a request of n bytes
InPayload(a, p, n) == a >= p /\ (n < 0 \/ a < p + n)

\* the payload ranges [p, p+n) and [q, q+m) share a byte
Overlap(p, n, q, m) ==
    /\ ULT(0, n) /\ ULT(0, m)
    /\ InPayload(p, q, m) \/ InPayload(q, p, n)

\* the addresses of the header words of the blocks and of the epilogue
HeaderWords(h) == {HDRP(bp) : bp \in Blocks(h)} \cup {h.brk - WSIZE}

\* the word at address w shares a byte with the payload range [p, p+n)
WordInPayload(w, p, n) ==
    ULT(0, n) /\ \E a \in w..(w + WSIZE - 1) : InPayload(a, p, n)

\* a block of size bytes holds a header word and a payload of n bytes
Holds(size, n) == n >= 0 /\ size >= n + WSIZE

Min(a, b) == IF a < b THEN a ELSE b

\* the written bytes of [p, p+len) in h0 are found again at [q, q+len) in h1
SameBytes(h0, h1, p, q, len) ==
    \A a \in {b \in DOMAIN h0.mem : p <= b /\ b < p + len} :
        /\ (a + (q - p)) \in DOMAIN h1.mem
        /\ h1.mem[a + (q - p)] = h0.mem[a]

\* the byte ranges [p, p+len) and [q, q+len) are apart
Apart(p, q, len) == q + len <= p \/ p + len <= q

\* releasing p and asking for n bytes again hands out p and leaves the break at brk
Reused(h, p, n, brk) ==
    \A m \in {malloc(free(h, p, h.brk), n, mem_heap_lo + MaxHeap)} :
        m.ret = p /\ m.fault = NoFault /\ m.h.brk = brk

(* ------------------------------------------------------------------ *)
(* Properties                                                          *)
(* ------------------------------------------------------------------ *)

C3_PayloadsDisjoint ==
    /\ \A p \in DOMAIN live, q \in DOMAIN live :
          p # q => ~Overlap(p, live[p], q, live[q])
    /\ \A p \in DOMAIN live, w \in HeaderWords(heap) :
          ~WordInPayload(w, p, live[p])

\* C4: after a successful allocate(n) with n > 0 the payload [p, p+n)
\* lies inside the placed block (an ALLOCATED block whose size holds the
\* header word and n bytes) and below the epilogue header of the arena.
C4_PayloadInsideBlock ==
    (last.op = "malloc" /\ last.ret # NULL) =>
        /\ last.ret \in Blocks(heap)
        /\ ~IsFree(heap, last.ret)
        /\ Holds(GET_SIZE(heap, HDRP(last.ret)), last.size)
        /\ ~WordInPayload(heap.brk - WSIZE, last.ret, last.size)

\* C5: when the growth primitive fails during allocate(n) on an
\* initialised heap, allocate returns null and the allocator's globals
\* and every byte of the arena (headers, footers, links, list heads,
\* epilogue, payloads) are as before the call.
C5_FailedGrowthKeepsArena ==
    [][(last'.op = "malloc" /\ heap.heap_listp > 0 /\ last'.oom) =>
          (last'.ret = NULL /\ heap' = heap /\ live' = live)]_vars

\* an allocate has failed for lack of growth while blocks were live
C5_Witness ==
    /\ last.op = "malloc" /\ last.oom /\ last.ret = NULL /\ last.size # 0
    /\ DOMAIN live # {}

C8_NullNotFilled ==
    (last.op = "calloc" /\ last.ret = NULL) => fault # "memset"

\* C9: allocate(0) returns null and changes nothing of the heap, in
\* every state, the uninitialised heap included.
C9_ZeroRequestNoEffect ==
    [][(last'.op = "malloc" /\ last'.size = 0) =>
          (last'.ret = NULL /\ heap' = heap)]_vars

OnlyEntry(h, bp, size) ==
    \A k \in 1..10 : ListOf(h, k) = (IF k = ClassOf(size) THEN <<bp>> ELSE <<>>)

\* the block bp is FREE and spans the arena from the prologue to the epilogue
SpansArena(h, bp) ==
    /\ bp = NEXT_BLKP(h, h.heap_listp)
    /\ IsFree(h, bp)
    /\ HDRP(NEXT_BLKP(h, bp)) = h.brk - WSIZE
    /\ GET(h, FTRP(h, bp)) = GET_SIZE(h, HDRP(bp))

PayloadSize(h, bp) == GET_SIZE(h, HDRP(bp)) - WSIZE

\* C12: resize(p, n) of a non-null p with n > 0 that gets its fresh
\* block copies exactly min(n, old_payload_size) bytes out of the old
\* block, old_payload_size being the old block's size minus its header
\* word, and so reads no byte from the header of the next block on.
C12_CopyWithinPayload ==
    [][(last'.op = "realloc" /\ last'.ptr # NULL /\ last'.size > 0
            /\ last'.ret # NULL) =>
          /\ copy_len(GET_SIZE(heap, HDRP(last'.ptr)), last'.size)
                = Min(last'.size, PayloadSize(heap, last'.ptr))
          /\ last'.ptr + copy_len(GET_SIZE(heap, HDRP(last'.ptr)), last'.size)
                <= HDRP(NEXT_BLKP(heap, last'.ptr))]_vars

\* two physically adjacent blocks of the arena are both FREE
AdjacentFree(h) ==
    \E bp \in Blocks(h) : IsFree(h, bp) /\ GET_ALLOC(h, HDRP(NEXT_BLKP(h, bp))) = 0

\* C13: check_consistency, run on a heap in which two physically
\* adjacent blocks are both FREE and the free lists are consistent,
\* reports and halts: it does not return normally.
C13_AdjacentFreeHalts ==
    (last.op = "mm_checkheap" /\ AdjacentFree(heap)) => fault # NoFault

\* the pointer returned by the last allocate, resize or zero_allocate
Returned ==
    IF last.op \in {"malloc", "realloc", "calloc"} /\ last.ret # NULL
    THEN {last.ret} ELSE {}

NextSaysAllocated(h, bp) == GET_PREV_ALLOC(h, HDRP(NEXT_BLKP(h, bp))) # 0

WellLinked(h, L) ==
    /\ Cardinality({L[i] : i \in 1..Len(L)}) = Len(L)
    /\ Len(L) > 0 =>
          /\ GET_PREV(h, L[1]) = h.heap_listp
          /\ GET_NEXT(h, L[Len(L)]) = h.heap_listp
    /\ \A i \in 1..(Len(L) - 1) :
          GET_NEXT(h, L[i]) = L[i + 1] /\ GET_PREV(h, L[i + 1]) = L[i]

C15_AtMostOneForeground == Cardinality(SlotsOfState(job_list, FG)) <= 1

\* C16: when eval of a foreground command line returns to the read
\* loop, the child it forked has been reaped and is off the job list,
\* or is stopped; with a job list of any length up to MAXJOBS.
C16_ForegroundWaited ==
    [][(pc = "eval_wait" /\ pc' = "read") =>
          \/ procs'[frame.pid].status = "stopped"
          \/ /\ procs'[frame.pid].status = "reaped"
             /\ SlotsOfPid(job_list', frame.pid) = {}]_vars

\* the processes of the jobs in state FG that a signal can reach
ForegroundProcs(jl, ps) ==
    {p \in Pids : Alive(ps[p]) /\ \E i \in SlotsOfState(jl, FG) : jl[i].pid = p}

\* C17: when the SIGINT or SIGTSTP handler runs while a job is in state
\* FG, the signal reaches the process of that job and no process of a
\* background job, whether or not the child has made its process group
\* yet; with no job in state FG nothing is sent.
C17_SignalReachesForeground ==
    [][sent'.sig # "none" => sent'.to = ForegroundProcs(job_list, procs)]_vars

\* the changes of state the shell documents for a job
Transitions == {<<FG, ST>>, <<ST, FG>>, <<ST, BG>>, <<BG, FG>>}

\* C18: the state of a job that stays in the job list changes only from
\* FG to ST, from ST to FG, from ST to BG or from BG to FG.
C18_DocumentedTransitions ==
    [][\A i \in 1..MAXJOBS :
          (job_list[i].pid # 0 /\ job_list'[i].pid = job_list[i].pid) =>
              \/ job_list'[i].state = job_list[i].state
              \/ <<job_list[i].state, job_list'[i].state>> \in Transitions]_vars

\* the footer of the block at bp repeats the size and the allocation bit of
\* its header
FooterMatches(h, bp) ==
    /\ GET_SIZE(h, FTRP(h, bp)) = GET_SIZE(h, HDRP(bp))
    /\ GET_ALLOC(h, FTRP(h, bp)) = GET_ALLOC(h, HDRP(bp))

RECURSIVE WalkEnd(_, _)
WalkEnd(h, bp) ==
    IF bp > h.brk \/ GET_SIZE(h, HDRP(bp)) = 0 THEN bp
    ELSE WalkEnd(h, NEXT_BLKP(h, bp))

\* the sum of the sizes of the blocks from bp up to the end of the walk
RECURSIVE SizesFrom(_, _)
SizesFrom(h, bp) ==
    IF bp > h.brk \/ GET_SIZE(h, HDRP(bp)) = 0 THEN 0
    ELSE GET_SIZE(h, HDRP(bp)) + SizesFrom(h, NEXT_BLKP(h, bp))

\* the bytes of the arena that extend_heap obtained: all but the four
\* words of mm_init
Grown(h) == h.brk - mem_heap_lo - (4 * WSIZE)

\* C22: between calls, the walk from the first block behind the prologue
\* by header sizes visits blocks whose sizes are multiples of 8 and at
\* least 16, and ends exactly at the epilogue header, which is the last
\* word of the arena, has size 0 and is marked ALLOCATED; the sizes of
\* the blocks add up to the bytes obtained by growth.
C22_BlocksTileArena ==
    heap.heap_listp > 0 =>
        /\ \A bp \in Blocks(heap) :
              /\ GET_SIZE(heap, HDRP(bp)) % ALIGNMENT = 0
              /\ GET_SIZE(heap, HDRP(bp)) >= 2 * DSIZE
        /\ HDRP(WalkEnd(heap, NEXT_BLKP(heap, heap.heap_listp))) = heap.brk - WSIZE
        /\ GET_SIZE(heap, heap.brk - WSIZE) = 0
        /\ GET_ALLOC(heap, heap.brk - WSIZE) = 1
        /\ SizesFrom(heap, NEXT_BLKP(heap, heap.heap_listp)) = Grown(heap)

\* the first block of the list L whose size is at least asize, or NULL
FirstFit(h, L, asize) ==
    IF \E i \in 1..Len(L) : ULE(asize, GET_SIZE(h, HDRP(L[i])))
    THEN L[MinOf({i \in 1..Len(L) : ULE(asize, GET_SIZE(h, HDRP(L[i])))})]
    ELSE NULL

\* the specified search: the classes from k upwards, first fit in each
RECURSIVE SearchFrom(_, _, _)
SearchFrom(h, k, asize) ==
    IF k > 10 THEN NULL
    ELSE IF FirstFit(h, ListOf(h, k), asize) # NULL
    THEN FirstFit(h, ListOf(h, k), asize)
    ELSE SearchFrom(h, k + 1, asize)

SomeFit(h, asize) ==
    \E bp \in Blocks(h) : IsFree(h, bp) /\ ULE(asize, GET_SIZE(h, HDRP(bp)))

malloc_place_fit(h, f, asize, lim) ==
    IF f.segv THEN [h |-> h, ret |-> NULL]
    ELSE IF f.ret # NULL THEN [h |-> h, ret |-> f.ret]
    ELSE extend_heap(h, MAX(asize, CHUNKSIZE) \div WSIZE, lim)

malloc_place_request(i, size, lim) ==
    IF size = 0 THEN [h |-> i.h, ret |-> NULL]
    ELSE malloc_place_fit(i.h, find_fit(i.h, adjust_size(size)), adjust_size(size), lim)

malloc_place(h, size, lim) ==
    malloc_place_request(
        IF h.heap_listp = 0 THEN mm_init(h, lim) ELSE [h |-> h, ret |-> 0], size, lim)

\* the block at bp is a FREE block of the arena, is linked in a list of
\* the index, and csize - asize does not wrap around
PlaceReady(h, bp, asize) ==
    /\ bp \in Blocks(h)
    /\ IsFree(h, bp)
    /\ \E k \in 1..10 : \E i \in 1..Len(ListOf(h, k)) : ListOf(h, k)[i] = bp
    /\ ULE(asize, GET_SIZE(h, HDRP(bp)))
    /\ GET_SIZE(h, HDRP(bp)) - asize >= 0

FreeBlocks(h) == {bp \in Blocks(h) : IsFree(h, bp)}

\* the block bp is linked in the list of class k
Linked(h, k, bp) == \E i \in 1..Len(ListOf(h, k)) : ListOf(h, k)[i] = bp

\* h1 is the heap that place(bp, asize) makes of h, csize the size the
\* block at bp had in h
Placed(h, h1, bp, asize, csize) ==
    IF csize - asize >= 2 * DSIZE
    THEN /\ ~IsFree(h1, bp)
         /\ GET_SIZE(h1, HDRP(bp)) = asize
         /\ IsFree(h1, bp + asize)
         /\ GET_SIZE(h1, HDRP(bp + asize)) = csize - asize
         /\ Linked(h1, ClassOf(csize - asize), bp + asize)
         /\ FreeBlocks(h1) = (FreeBlocks(h) \ {bp}) \cup {bp + asize}
    ELSE /\ ~IsFree(h1, bp)
         /\ GET_SIZE(h1, HDRP(bp)) = csize
         /\ FreeBlocks(h1) = FreeBlocks(h) \ {bp}

C27_InitFailureReturnsNull ==
    [][(last'.op = "malloc" /\ last'.size # 0 /\ heap.heap_listp = 0
            /\ (heap'.heap_listp = 0 - 1 \/ heap'.brk = mem_heap_lo + (4 * WSIZE))) =>
          (last'.ret = NULL /\ fault' = NoFault)]_vars

\* C28: check_consistency, run on an initialised heap that the calls of
\* the public API have made (no two adjacent FREE blocks), returns
\* without reporting an error.
C28_CheckHeapReturns ==
    (last.op = "mm_checkheap" /\ heap.heap_listp > 0 /\ ~AdjacentFree(heap)) =>
        fault = NoFault

\* C29: no entry of the job list is that of a process that has been
\* reaped, and the child of an eval is not reaped while eval is between
\* its fork and its addjob, whenever the child exits: the deletejob of
\* sigchld_handler does not come before the addjob of eval.
C29_AddjobBeforeReap ==
    /\ \A i \in 1..MAXJOBS :
          job_list[i].pid # 0 => procs[job_list[i].pid].status # "reaped"
    /\ pc = "eval_forked" => procs[frame.pid].status # "reaped"

\* the child has exited and its SIGCHLD is pending while eval has not
\* yet called addjob
C29_Witness ==
    /\ pc = "eval_forked"
    /\ procs[frame.pid].status = "zombie"
    /\ sigchld

\* eval is in its parent branch behind addjob, waiting for frame.pid
Waiting == pc \in {"eval_unblocked", "eval_wait", "eval_suspend"}

\* the process has terminated or is stopped
Done(pr) == pr.status \in {"zombie", "stopped", "reaped"}

\* the only job in state FG is that of eval's child, and every child the
\* shell has not reaped is in the job list
OneForeground ==
    /\ \A i \in SlotsOfState(job_list, FG) : job_list[i].pid = frame.pid
    /\ \A p \in Pids : Alive(procs[p]) => SlotsOfPid(job_list, p) # {}

C31_UniqueJids ==
    \A i, j \in DOMAIN job_list :
        (i # j /\ job_list[i].pid # 0 /\ job_list[j].pid # 0)
            => job_list[i].jid # job_list[j].jid

\* C32: no run of sigchld_handler dereferences a null job: for every
\* child that waitpid returns, a child of nohup and a child that addjob
\* had no entry for included, the handler ends without a fault.
C32_HandlerFindsJob == [][SigchldHandler => pc' # "crashed"]_vars

\* C33: no child of the shell executes the read loop of main: a child
\* that eval or builtin_nohup has forked becomes the program or ends.
C33_ChildNeverInLoop ==
    \A p \in Pids : Alive(procs[p]) => procs[p].at # "loop"

====
